---- MODULE Spec2Model ----
(***************************************************************************)
(* Moderator shift tracker of dembot: the schedule loader (schedule.py),   *)
(* the user matcher and the in-memory tracker (moderator_tracking.py) and  *)
(* the callers that drive them (dembot.py).                                *)
(*                                                                         *)
(* Time is counted in whole hours of the US/Eastern wall clock since       *)
(* 00:00 of day 0; the Eastern calendar date of hour t is t \div 24.       *)
(* Text is a sequence of one-character strings.                            *)
(***************************************************************************)
EXTENDS Integers, Sequences, FiniteSets, TLC

(***************************************************************************)
(* Text helpers used by match_user                                         *)
(***************************************************************************)

\* str.lower() on the letters the model's texts use
UpperToLower ==
    ("A" :> "a") @@ ("B" :> "b") @@ ("C" :> "c") @@ ("D" :> "d") @@
    ("J" :> "j") @@ ("L" :> "l") @@ ("Z" :> "z")

LowerChar(c) == IF c \in DOMAIN UpperToLower THEN UpperToLower[c] ELSE c

Lower(s) == [i \in 1..Len(s) |-> LowerChar(s[i])]

\* re.sub(r"[\(\)\[\]]", "", name)
Brackets == {"(", ")", "[", "]"}

IsNotBracket(c) == c \notin Brackets

RemoveBrackets(s) == SelectSeq(s, IsNotBracket)

\* str.strip(): leading and trailing whitespace removed
Whitespace == {" "}

RECURSIVE LStrip(_)
LStrip(s) ==
    IF s # <<>> /\ Head(s) \in Whitespace THEN LStrip(Tail(s)) ELSE s

RECURSIVE RStrip(_)
RStrip(s) ==
    IF s # <<>> /\ s[Len(s)] \in Whitespace
    THEN RStrip(SubSeq(s, 1, Len(s) - 1))
    ELSE s

Strip(s) == RStrip(LStrip(s))

\* Python's `a in b` on strings; the empty string is in every string
IsSubstring(a, b) ==
    \E i \in 0..(Len(b) - Len(a)) : SubSeq(b, i + 1, i + Len(a)) = a

Digits == {"0", "1", "2", "3", "4", "5", "6", "7", "8", "9"}

Letters ==
    {"a", "b", "c", "d", "e", "j", "l", "n", "o", "y", "z"} \cup DOMAIN UpperToLower

\* [a-zA-Z0-9_]
WordChars == Letters \cup Digits \cup {"_"}

NoTag == <<"<None>">>

\* The regex ([a-zA-Z0-9_]+)#(\d{4}) matches text[i..j+5]: a run of word
\* characters i..j, "#" at j+1 and four digits after it.
TagMatchAt(text, i, j) ==
    /\ i <= j
    /\ j + 5 <= Len(text)
    /\ \A k \in i..j : text[k] \in WordChars
    /\ text[j + 1] = "#"
    /\ \A k \in (j + 2)..(j + 5) : text[k] \in Digits

\* re.search returns the leftmost match; None when there is none
extract_discord_tag(text) ==
    LET starts == {i \in 1..Len(text) : \E j \in i..Len(text) : TagMatchAt(text, i, j)}
    IN  IF starts = {} THEN NoTag
        ELSE LET i0 == CHOOSE i \in starts : \A k \in starts : i <= k
                 j0 == CHOOSE j \in i0..Len(text) : TagMatchAt(text, i0, j)
             IN  SubSeq(text, i0, j0 + 5)

(***************************************************************************)
(* fuzz.token_set_ratio(s1, s2) >= cutoff, as rapidfuzz computes it        *)
(***************************************************************************)

\* Order of characters, for sorting tokens
Alphabet ==
    <<" ", "#", "(", ")", "0", "1", "2", "3", "4", "5", "6", "7", "8", "9",
      "A", "B", "C", "D", "J", "L", "Z", "[", "]", "_",
      "a", "b", "c", "d", "e", "j", "l", "n", "o", "y", "z">>

CharRank(c) == CHOOSE i \in 1..Len(Alphabet) : Alphabet[i] = c

RECURSIVE LexLess(_, _)
LexLess(a, b) ==
    IF b = <<>> THEN FALSE
    ELSE IF a = <<>> THEN TRUE
    ELSE IF Head(a) # Head(b) THEN CharRank(Head(a)) < CharRank(Head(b))
    ELSE LexLess(Tail(a), Tail(b))

\* The first whitespace-delimited token of s that starts at or after its head
RECURSIVE TakeToken(_)
TakeToken(s) ==
    IF s = <<>> \/ Head(s) \in Whitespace THEN <<>>
    ELSE <<Head(s)>> \o TakeToken(Tail(s))

\* set(s.split())
RECURSIVE TokenSet(_)
TokenSet(s) ==
    LET t == LStrip(s)
    IN  IF t = <<>> THEN {}
        ELSE LET tok == TakeToken(t)
             IN  {tok} \cup TokenSet(SubSeq(t, Len(tok) + 1, Len(t)))

\* " ".join(sorted(tokens))
RECURSIVE JoinSorted(_)
JoinSorted(tokens) ==
    IF tokens = {} THEN <<>>
    ELSE LET m == CHOOSE x \in tokens : \A y \in tokens \ {x} : LexLess(x, y)
             rest == tokens \ {m}
         IN  IF rest = {} THEN m ELSE m \o <<" ">> \o JoinSorted(rest)

\* Length of the longest common subsequence
RECURSIVE LCS(_, _)
LCS(a, b) ==
    IF a = <<>> \/ b = <<>> THEN 0
    ELSE IF Head(a) = Head(b) THEN 1 + LCS(Tail(a), Tail(b))
    ELSE LET x == LCS(Tail(a), b)
             y == LCS(a, Tail(b))
         IN  IF x >= y THEN x ELSE y

\* Insertions plus deletions turning a into b
indel_distance(a, b) == Len(a) + Len(b) - 2 * LCS(a, b)

\* 100 - 100 * dist / lensum >= cutoff (100 when lensum is 0)
NormDistanceReaches(dist, lensum, cutoff) ==
    IF lensum = 0 THEN 100 >= cutoff
    ELSE 100 * (lensum - dist) >= cutoff * lensum

\* fuzz.token_set_ratio(s1, s2) >= cutoff
TokenSetRatioReaches(s1, s2, cutoff) ==
    LET tokens_a == TokenSet(s1)
        tokens_b == TokenSet(s2)
        intersect == tokens_a \cap tokens_b
        diff_ab == tokens_a \ tokens_b
        diff_ba == tokens_b \ tokens_a
        diff_ab_joined == JoinSorted(diff_ab)
        diff_ba_joined == JoinSorted(diff_ba)
        ab_len == Len(diff_ab_joined)
        ba_len == Len(diff_ba_joined)
        sect_len == Len(JoinSorted(intersect))
        sep == IF sect_len # 0 THEN 1 ELSE 0
        sect_ab_len == sect_len + sep + ab_len
        sect_ba_len == sect_len + sep + ba_len
        dist == indel_distance(diff_ab_joined, diff_ba_joined)
    IN  IF tokens_a = {} \/ tokens_b = {} THEN 0 >= cutoff
        ELSE IF intersect # {} /\ (diff_ab = {} \/ diff_ba = {}) THEN 100 >= cutoff
        ELSE \/ NormDistanceReaches(dist, sect_ab_len + sect_ba_len, cutoff)
             \/ /\ sect_len # 0
                /\ \/ NormDistanceReaches(sep + ab_len, sect_len + sect_ab_len, cutoff)
                   \/ NormDistanceReaches(sep + ba_len, sect_len + sect_ba_len, cutoff)

(***************************************************************************)
(* Users (discord.Member) and match_user                                   *)
(***************************************************************************)

\* The guilds (communities) the bot serves
GuildA == "guild A"

GuildB == "guild B"

GuildIds == {GuildA, GuildB}

\* display_name, name, str(user), the names of the member's roles and the
\* guild the member (interaction.user, interaction.guild) belongs to
UserAl ==
    [id |-> 1, display_name |-> <<"A", "l">>, name |-> <<"a", "l">>,
     tag |-> <<"a", "l", "#", "0", "0", "0", "1">>, roles |-> {"Moderator"}, guild |-> GuildA]

UserBo ==
    [id |-> 2, display_name |-> <<"B", "o">>, name |-> <<"b", "o">>,
     tag |-> <<"b", "o">>, roles |-> {"Community Moderator"}, guild |-> GuildB]

UserCy ==
    [id |-> 3, display_name |-> <<"C", "y">>, name |-> <<"c", "y">>,
     tag |-> <<"c", "y">>, roles |-> {"Member"}, guild |-> GuildA]

Users == {UserAl, UserBo, UserCy}

UserIds == {u.id : u \in Users}

UserOf(uid) == CHOOSE u \in Users : u.id = uid

RequiredRoleNames == {"Moderator", "Community Moderator"}

\* Mutant of user_has_role: any role at all passes
user_has_role_AnyRole(user, role_names) == user.roles # {}

\* user_has_role(user, role_names=...)
user_has_role(user, role_names) == \E r \in role_names : r \in user.roles

\* The fuzzy threshold of match_user
FuzzyThreshold == 85

\* name_cleaned of match_user
CleanEntryName(name) == Strip(RemoveBrackets(Lower(name)))

match_user(entry, user) ==
    LET user_tag == Lower(user.tag)
        user_names == {Lower(user.display_name), Lower(user.name), user_tag}
        entry_names_cleaned ==
            {CleanEntryName(entry.discord_username), CleanEntryName(entry.moderator_name)}
        entry_discord_tags ==
            {extract_discord_tag(n) : n \in entry_names_cleaned} \ {NoTag}
    IN  \/ user_tag \in entry_discord_tags
        \/ \E uname \in user_names, ename \in entry_names_cleaned :
              \/ TokenSetRatioReaches(uname, ename, FuzzyThreshold)
              \/ IsSubstring(uname, ename)
              \/ IsSubstring(ename, uname)

(***************************************************************************)
(* The schedule sheet and get_schedule_entries                             *)
(***************************************************************************)

\* timedelta(days=1), and the length of a calendar date, in hours
HoursPerDay == 24

\* datetime.date() of an instant
DateOf(t) == t \div HoursPerDay

\* A cell of the Date column: text "MM/DD/YYYY" naming day d, text in no such
\* format, an empty cell, or a value that is not text
DateCell(d) == [kind |-> "text", day |-> d]

\* A cell of a time column: text "hh:00 AM|PM", text in no such format, or a
\* value that is not text (a missing column, a number)
TimeCell(hh, pm) == [kind |-> "text", hh |-> hh, pm |-> pm]

BadText == [kind |-> "badtext"]

EmptyCell == [kind |-> "empty"]

NonText == [kind |-> "nontext"]

NotAvailable == <<"N", "o", "t", " ", "a", "v", "a", "i", "l", "a", "b", "l", "e">>

\* `if not shift_date_str`
IsFalsy(cell) == cell.kind = "empty"

\* datetime.strptime(cell, fmt): "ok", "ValueError" or "TypeError"
StrptimeDate(cell) ==
    IF cell.kind \in {"nontext"} THEN "TypeError"
    ELSE IF cell.kind = "text" THEN "ok"
    ELSE "ValueError"

StrptimeTime(cell) ==
    IF cell.kind = "nontext" THEN "TypeError"
    ELSE IF cell.kind = "text" /\ cell.hh \in 1..12 THEN "ok"
    ELSE "ValueError"

\* The hour of day that '%I:%M %p' reads: 12 AM is 0, 12 PM is 12
TimeOfDay(cell) == (cell.hh % 12) + (IF cell.pm THEN 12 ELSE 0)

\* What lines 80-89 do with a record: "skip" (continue), "raise" (an
\* exception other than ValueError leaves the function) or "ok"
RowOutcome(record) ==
    IF IsFalsy(record.Date) THEN "skip"
    ELSE IF StrptimeDate(record.Date) = "TypeError" THEN "raise"
    ELSE IF StrptimeDate(record.Date) = "ValueError" THEN "skip"
    ELSE IF StrptimeTime(record.Start) = "TypeError" THEN "raise"
    ELSE IF StrptimeTime(record.Start) = "ValueError" THEN "skip"
    ELSE IF StrptimeTime(record.End) = "TypeError" THEN "raise"
    ELSE IF StrptimeTime(record.End) = "ValueError" THEN "skip"
    ELSE "ok"

\* shift_start_datetime of a parsed record
RowStart(record) == record.Date.day * HoursPerDay + TimeOfDay(record.Start)

\* Mutant of RowEnd: a day is added only when the end is before the start
RowEnd_StrictlyBefore(record) ==
    LET shift_end == record.Date.day * HoursPerDay + TimeOfDay(record.End)
    IN  IF shift_end < RowStart(record) THEN shift_end + HoursPerDay ELSE shift_end

\* shift_end_datetime: a day is added when the end is not after the start
RowEnd(record) ==
    LET shift_end == record.Date.day * HoursPerDay + TimeOfDay(record.End)
    IN  IF shift_end <= RowStart(record) THEN shift_end + HoursPerDay ELSE shift_end

ScheduleEntry(moderator_name, discord_username, shift_start, shift_end, role) ==
    [moderator_name |-> moderator_name, discord_username |-> discord_username,
     shift_start_datetime |-> shift_start, shift_end_datetime |-> shift_end,
     role |-> role]

\* Mutant of RowEntries: every non-empty overflow cell yields an entry
RowEntries_AnyOverflow(record) ==
    LET st == RowStart(record)
        en == RowEnd(record)
    IN  <<ScheduleEntry(record.Name, record.Discord, st, en, "Mod")>>
        \o (IF record.Lead # <<>>
            THEN <<ScheduleEntry(record.Lead, <<>>, st, en, "Lead Mod")>>
            ELSE <<>>)
        \o (IF record.Overflow # <<>>
            THEN <<ScheduleEntry(record.Overflow, <<>>, st, en, "Overflow")>>
            ELSE <<>>)

\* The entries one record yields, in the order they are appended
RowEntries(record) ==
    LET st == RowStart(record)
        en == RowEnd(record)
    IN  <<ScheduleEntry(record.Name, record.Discord, st, en, "Mod")>>
        \o (IF record.Lead # <<>>
            THEN <<ScheduleEntry(record.Lead, <<>>, st, en, "Lead Mod")>>
            ELSE <<>>)
        \o (IF record.Overflow # <<>> /\ record.Overflow # NotAvailable
            THEN <<ScheduleEntry(record.Overflow, <<>>, st, en, "Overflow")>>
            ELSE <<>>)

\* Mutant of RowDates: the start date alone
RowDates_StartOnly(record) == {DateOf(RowStart(record))}

\* dates of lines 114-116
RowDates(record) ==
    {DateOf(RowStart(record))}
    \cup (IF DateOf(RowEnd(record)) # DateOf(RowStart(record))
          THEN {DateOf(RowEnd(record))}
          ELSE {})

\* A date-indexed mapping (dict, defaultdict(list)) and dict.get(date, [])
EmptyIndex == [d \in {} |-> <<>>]

Bucket(index, date) == IF date \in DOMAIN index THEN index[date] ELSE <<>>

\* Mutant of AddRow: the Lead Mod and Overflow entries go to the start date
\* alone
AddRow_OthersStartOnly(index, record) ==
    [d \in DOMAIN index \cup RowDates(record) |->
        IF d = DateOf(RowStart(record))
        THEN Bucket(index, d) \o RowEntries(record)
        ELSE IF d \in RowDates(record)
        THEN Bucket(index, d) \o <<Head(RowEntries(record))>>
        ELSE index[d]]

\* schedule_by_date[date].append(entry) for every date of the record and
\* every entry of the record.  The code appends the Mod entry to all dates,
\* then the Lead Mod entry, then the Overflow entry: each bucket receives the
\* record's entries in that order.
AddRow(index, record) ==
    [d \in DOMAIN index \cup RowDates(record) |->
        IF d \in RowDates(record)
        THEN Bucket(index, d) \o RowEntries(record)
        ELSE index[d]]

\* The result of a call: a returned index, or an exception leaving the call
Returned(index) == [raised |-> FALSE, index |-> index]

Raised == [raised |-> TRUE, index |-> EmptyIndex]

\* The loop of lines 70-141 over the records, from schedule_by_date = index
RECURSIVE ProcessRecords(_, _)
ProcessRecords(records, index) ==
    IF records = <<>> THEN Returned(index)
    ELSE LET outcome == RowOutcome(Head(records))
         IN  IF outcome = "raise" THEN Raised
             ELSE IF outcome = "skip" THEN ProcessRecords(Tail(records), index)
             ELSE ProcessRecords(Tail(records), AddRow(index, Head(records)))

\* What the spreadsheet client gives one refresh:
\*   "no_credentials"  ScheduleSheet() raises in _get_client
\*   "no_sheet"        open_by_url fails, get_sheet prints and returns None
\*   "fetch_error"     get_sheet succeeds, sheet.get_all_records() raises
\*   "rows"            get_all_records() returns the records
SourceNoCredentials == [kind |-> "no_credentials", records |-> <<>>]

SourceNoSheet == [kind |-> "no_sheet", records |-> <<>>]

SourceFetchError == [kind |-> "fetch_error", records |-> <<>>]

SourceRows(records) == [kind |-> "rows", records |-> records]

\* get_sheet(): whether a sheet comes back (None otherwise)
get_sheet(source) == source.kind \in {"fetch_error", "rows"}

\* ScheduleSheet().get_schedule_entries()
get_schedule_entries(source) ==
    IF ~get_sheet(source) THEN Returned(EmptyIndex)
    ELSE IF source.kind = "fetch_error" THEN Raised
    ELSE ProcessRecords(source.records, EmptyIndex)

\* The index as far as the loop has built it when it ends or raises
RECURSIVE BuiltSoFar(_, _)
BuiltSoFar(records, index) ==
    IF records = <<>> \/ RowOutcome(Head(records)) = "raise" THEN index
    ELSE IF RowOutcome(Head(records)) = "skip" THEN BuiltSoFar(Tail(records), index)
    ELSE BuiltSoFar(Tail(records), AddRow(index, Head(records)))

\* Mutant of refresh_schedule: the loader fills self.schedule_entries in
\* place, so a load that raises leaves what it had built
refresh_schedule_InPlace(schedule_entries, source) ==
    IF source.kind = "no_credentials" THEN schedule_entries
    ELSE IF source.kind = "rows" THEN BuiltSoFar(source.records, EmptyIndex)
    ELSE IF source.kind = "fetch_error" THEN schedule_entries
    ELSE EmptyIndex

\* The try block of refresh_schedule: the new value of self.schedule_entries
refresh_schedule(schedule_entries, source) ==
    IF source.kind = "no_credentials" THEN schedule_entries
    ELSE LET got == get_schedule_entries(source)
         IN  IF got.raised THEN schedule_entries ELSE got.index

(***************************************************************************)
(* CheckedInModerator and the tracker's operations                         *)
(***************************************************************************)

Groups == {"Lead Mod", "Mod", "Overflow", "Floating"}

\* The order in which mod_checkout searches the groups
CheckoutOrder == <<"Lead Mod", "Mod", "Overflow", "Floating">>

\* The defaults of mod_checkin: group 'Floating', shift_duration 1 hour
FloatingGroup == "Floating"

FloatingHours == 1

\* Mutant of CheckedInModerator: shift_duration is ignored, the shift lasts
\* the default hour
CheckedInModerator_DefaultHour(user, group, check_in_time, shift_duration) ==
    [user_id |-> user.id, display_name |-> user.display_name, username |-> user.tag,
     group |-> group, check_in_time |-> check_in_time,
     shift_end_time |-> check_in_time + FloatingHours]

\* CheckedInModerator.__init__ with check_in_time given: shift_end_time is
\* check_in_time + timedelta(hours=shift_duration)
CheckedInModerator(user, group, check_in_time, shift_duration) ==
    [user_id |-> user.id, display_name |-> user.display_name, username |-> user.tag,
     group |-> group, check_in_time |-> check_in_time,
     shift_end_time |-> check_in_time + shift_duration]

\* Mutant of is_shift_over: strictly after the shift end
is_shift_over_Strict(moderator, t) == t > moderator.shift_end_time

\* CheckedInModerator.is_shift_over at instant t
is_shift_over(moderator, t) == t >= moderator.shift_end_time

\* dict operations on {user_id: CheckedInModerator}
EmptyDict == [u \in {} |-> 0]

DictPut(dict, key, value) ==
    [k \in DOMAIN dict \cup {key} |-> IF k = key THEN value ELSE dict[k]]

DictDel(dict, key) == [k \in DOMAIN dict \ {key} |-> dict[k]]

\* The groups whose dict holds user_id
GroupsHolding(mods, user_id) == {g \in Groups : user_id \in DOMAIN mods[g]}

\* check_in_moderator when no group holds the user: line 111 alone
CheckInNew(mods, moderator) ==
    [mods EXCEPT ![moderator.group] = DictPut(@, moderator.user_id, moderator)]

\* Mutant of CheckInExisting: line 102 missing, the new record keeps its own
\* check_in_time
CheckInExistingNoPreserve(mods, moderator, existing_group) ==
    LET removed == IF existing_group # moderator.group
                   THEN [mods EXCEPT ![existing_group] = DictDel(@, moderator.user_id)]
                   ELSE mods
    IN  [removed EXCEPT ![moderator.group] = DictPut(@, moderator.user_id, moderator)]

\* Mutant of CheckInExisting: lines 104-105 missing, the old entry stays in
\* the old group
CheckInExistingNoDelete(mods, moderator, existing_group) ==
    LET existing_moderator == mods[existing_group][moderator.user_id]
        stored == [moderator EXCEPT !.check_in_time = existing_moderator.check_in_time]
    IN  [mods EXCEPT ![moderator.group] = DictPut(@, moderator.user_id, stored)]

\* check_in_moderator when the loop of lines 94-98 found the user in
\* existing_group: the stored object keeps the shift_end_time computed by
\* __init__ and takes the existing check_in_time (line 102); the old entry is
\* deleted when the group differs (lines 104-105); line 111 stores it
CheckInExisting(mods, moderator, existing_group) ==
    LET existing_moderator == mods[existing_group][moderator.user_id]
        stored == [moderator EXCEPT !.check_in_time = existing_moderator.check_in_time]
        removed == IF existing_group # moderator.group
                   THEN [mods EXCEPT ![existing_group] = DictDel(@, moderator.user_id)]
                   ELSE mods
    IN  [removed EXCEPT ![moderator.group] = DictPut(@, moderator.user_id, stored)]

\* Mutant of check_out_moderator: the whole group is emptied
check_out_moderator_ClearsGroup(mods, user_id, group) ==
    IF user_id \in DOMAIN mods[group]
    THEN [mods EXCEPT ![group] = EmptyDict]
    ELSE mods

\* check_out_moderator(user_id, group)
check_out_moderator(mods, user_id, group) ==
    IF user_id \in DOMAIN mods[group]
    THEN [mods EXCEPT ![group] = DictDel(@, user_id)]
    ELSE mods

\* Mutant of auto_check_out_moderators: nothing is removed
auto_check_out_moderators_Nothing(mods, t) == mods

\* Mutant of auto_check_out_moderators: the pass stops after the first group
\* that holds an expired record
auto_check_out_moderators_OneGroup(mods, t) ==
    LET expired == {g \in Groups : \E k \in DOMAIN mods[g] : is_shift_over(mods[g][k], t)}
    IN  IF expired = {} THEN mods
        ELSE LET g0 == CHOOSE g \in expired : TRUE
             IN  [mods EXCEPT ![g0] =
                     [u \in {k \in DOMAIN mods[g0] : ~is_shift_over(mods[g0][k], t)}
                         |-> mods[g0][u]]]

\* auto_check_out_moderators at instant t
auto_check_out_moderators(mods, t) ==
    [g \in Groups |->
        [u \in {k \in DOMAIN mods[g] : ~is_shift_over(mods[g][k], t)} |-> mods[g][u]]]

\* Mutant of get_embed: the records are rendered without the sweep
get_embed_NoSweep(mods, t) ==
    [moderators |-> mods,
     listed |-> UNION {{mods[g][u] : u \in DOMAIN mods[g]} : g \in Groups}]

\* get_embed at instant t: auto_check_out_moderators first, then the
\* "Checked-In Moderators" fields list every record the groups still hold
get_embed(mods, t) ==
    LET swept == auto_check_out_moderators(mods, t)
    IN  [moderators |-> swept,
         listed |-> UNION {{swept[g][u] : u \in DOMAIN swept[g]} : g \in Groups}]

\* The window test of lines 147, 170 and 322
InShiftWindow(entry, t) ==
    entry.shift_start_datetime <= t /\ t <= entry.shift_end_datetime

\* Mutant of FirstHolding: the first group that holds anybody
RECURSIVE FirstHoldingAnybody(_, _, _)
FirstHoldingAnybody(mods, user_id, i) ==
    IF i > Len(CheckoutOrder) THEN 0
    ELSE IF DOMAIN mods[CheckoutOrder[i]] # {} THEN i
    ELSE FirstHoldingAnybody(mods, user_id, i + 1)

\* The first group of CheckoutOrder, from position i, that holds user_id
\* (0 when none does): the loop of lines 360-366
RECURSIVE FirstHolding(_, _, _)
FirstHolding(mods, user_id, i) ==
    IF i > Len(CheckoutOrder) THEN 0
    ELSE IF user_id \in DOMAIN mods[CheckoutOrder[i]] THEN i
    ELSE FirstHolding(mods, user_id, i + 1)

(***************************************************************************)
(* The sheets the spreadsheet may hold                                     *)
(***************************************************************************)

Record(name, discord, date, start, end, lead, overflow) ==
    [Name |-> name, Discord |-> discord, Date |-> date, Start |-> start,
     End |-> end, Lead |-> lead, Overflow |-> overflow]

\* The records on which the loader alone is exercised: well-formed rows of
\* day 0 (same-day, overnight, end equal to start, end at midnight; with and
\* without lead and
\* overflow moderators) and rows with a cell that does not parse
LoaderTimes == {<<TimeCell(9, TRUE), TimeCell(11, TRUE)>>,
                <<TimeCell(9, TRUE), TimeCell(1, FALSE)>>,
                <<TimeCell(11, TRUE), TimeCell(1, FALSE)>>,
                <<TimeCell(11, TRUE), TimeCell(11, TRUE)>>,
                <<TimeCell(9, TRUE), TimeCell(12, FALSE)>>}

LoaderExtras == {<<<<>>, NotAvailable>>, <<<<"B", "o">>, <<"C", "y">>>>, <<<<>>, <<>>>>}

WellFormedRows ==
    {Record(<<"A", "l">>, <<"a", "l">>, DateCell(0), times[1], times[2],
            extras[1], extras[2]) : times \in LoaderTimes, extras \in LoaderExtras}

\* Dee, day 0, 09:00 PM, an End cell that is not text
RowNonText ==
    Record(<<"D", "e", "e">>, <<"d", "e", "e">>, DateCell(0), TimeCell(9, TRUE),
           NonText, <<"B", "o">>, <<"C", "y">>)

MalformedRows ==
    {Record(<<"D", "e", "e">>, <<"d", "e", "e">>, cells[1], cells[2], cells[3],
            <<"B", "o">>, <<"C", "y">>) :
        cells \in {<<EmptyCell, TimeCell(9, TRUE), TimeCell(11, TRUE)>>,
                   <<DateCell(0), BadText, TimeCell(11, TRUE)>>,
                   <<DateCell(0), TimeCell(9, TRUE), EmptyCell>>}}
    \cup {RowNonText}

LoaderRows == WellFormedRows \cup MalformedRows

\* A sheet holds at most MaxRows records
MaxRows == 2

LoaderSheets ==
    UNION {[1..n -> LoaderRows] : n \in 1..MaxRows}

\* Al, "al#0001", day 0, 09:00 PM - 10:00 PM, no lead, overflow "Not available"
RowEvening ==
    Record(<<"A", "l">>, <<"a", "l", "#", "0", "0", "0", "1">>, DateCell(0),
           TimeCell(9, TRUE), TimeCell(10, TRUE), <<>>, NotAvailable)

\* Al, "(al)", day 0, 10:00 PM - 01:00 AM (overnight), lead "Bo"
RowOvernight ==
    Record(<<"A", "l">>, <<"(", "a", "l", ")">>, DateCell(0),
           TimeCell(10, TRUE), TimeCell(1, FALSE), <<"B", "o">>, <<>>)

\* Dee, "dee", day 0, 09:00 PM - 12:00 AM, no lead, overflow "Not available"
RowDee ==
    Record(<<"D", "e", "e">>, <<"d", "e", "e">>, DateCell(0),
           TimeCell(9, TRUE), TimeCell(12, FALSE), <<>>, NotAvailable)

\* The sheets the running tracker reads: two that load, and one whose second
\* record makes the load raise
Sheets == {<<RowEvening, RowOvernight>>, <<RowDee>>, <<RowEvening, RowNonText>>}

Sources ==
    {SourceNoCredentials, SourceNoSheet, SourceFetchError}
    \cup {SourceRows(records) : records \in Sheets}

\* The loop of lines 319-328: group and shift_duration for the user at t.
\* The nested tests of lines 320 and 322 are a conjunction of two pure tests.
RECURSIVE FindShift(_, _, _)
FindShift(user_schedule, user, t) ==
    IF user_schedule = <<>>
    THEN [group |-> FloatingGroup, shift_duration |-> FloatingHours]
    ELSE LET entry == Head(user_schedule)
         IN  IF InShiftWindow(entry, t) /\ match_user(entry, user)
             THEN [group |-> entry.role,
                   shift_duration |-> entry.shift_end_datetime - entry.shift_start_datetime]
             ELSE FindShift(Tail(user_schedule), user, t)

(***************************************************************************)
(* The current shift and the status message                                *)
(***************************************************************************)

\* An optional value: None, or Some(x)
None == {}

Some(x) == {x}

Least(S) == CHOOSE x \in S : \A y \in S : x <= y

Greatest(S) == CHOOSE x \in S : \A y \in S : y <= x

\* get_current_shift_times at instant t: (min of the starts, max of the ends)
\* of today's entries that pass the window test, (None, None) without any
get_current_shift_times(index, t) ==
    LET todays_schedule == Bucket(index, DateOf(t))
        current_shifts ==
            {i \in DOMAIN todays_schedule : InShiftWindow(todays_schedule[i], t)}
    IN  IF current_shifts = {} THEN [start |-> None, end |-> None]
        ELSE [start |-> Some(Least({todays_schedule[i].shift_start_datetime :
                                        i \in current_shifts})),
              end |-> Some(Greatest({todays_schedule[i].shift_end_datetime :
                                         i \in current_shifts}))]

\* An attribute of the tracker object: ModeratorTracker.__init__ assigns
\* neither shift_tracker_channel_id nor shift_tracker_message_id, so both
\* start undefined and reading them raises AttributeError
Undefined == [defined |-> FALSE, value |-> None]

Attr(value) == [defined |-> TRUE, value |-> value]

\* The channel id that line 265 assigns
ShiftTrackerChannelId == "1288387850261495870"

\* The periodic tasks that on_ready creates
PeriodicTasks == {"refresh_schedule_task", "auto_check_out_task", "shift_tracker_task"}

\* What the Discord client gives one display update: whether get_channel
\* finds the channel, how the first transport call of the try block ends
\* (fetch_message and edit, or send) and how the send of the NotFound
\* handler ends
TransportResults == {"ok", "NotFound", "Forbidden"}

Outcomes ==
    [channel : BOOLEAN, first : TransportResults, resend : {"ok", "Forbidden"}]

\* Message ids: the id of the n-th message the bot posts is n
MaxMessages == 2

MessageNumber(message_id) ==
    IF message_id.defined /\ message_id.value # None
    THEN CHOOSE n \in 1..MaxMessages : message_id.value = Some(n)
    ELSE 0

\* Mutant of update_shift_tracker_message: NotFound is logged like any other
\* failure, nothing is resent
update_shift_tracker_message_NoResend(channel_id, message_id, outcome) ==
    LET result(raised, swept, reply, channel, message, calls) ==
            [raised |-> raised, swept |-> swept, reply |-> reply,
             channel_id |-> channel, message_id |-> message, calls |-> calls]
        assigned == IF channel_id.value = None
                    THEN Attr(Some(ShiftTrackerChannelId))
                    ELSE channel_id
        posted == Attr(Some(MessageNumber(message_id) + 1))
    IN  IF ~channel_id.defined \/ ~message_id.defined
        THEN result("AttributeError", FALSE, "raised", channel_id, message_id, <<>>)
        ELSE IF ~outcome.channel
        THEN result("none", FALSE, "no_channel", assigned, message_id, <<>>)
        ELSE IF outcome.first = "ok"
        THEN IF message_id.value # None
             THEN result("none", TRUE, "edited", assigned, message_id, <<"ok">>)
             ELSE result("none", TRUE, "sent", assigned, posted, <<"ok">>)
        ELSE IF outcome.first = "NotFound"
        THEN result("none", TRUE, "logged", assigned, message_id, <<"NotFound">>)
        ELSE result("none", TRUE, "logged", assigned, message_id, <<outcome.first>>)

\* update_shift_tracker_message: the exception that leaves the call ("none"
\* when it returns), whether get_embed ran, the attributes afterwards and
\* the results the transport calls of this update gave, in order
update_shift_tracker_message(channel_id, message_id, outcome) ==
    LET result(raised, swept, reply, channel, message, calls) ==
            [raised |-> raised, swept |-> swept, reply |-> reply,
             channel_id |-> channel, message_id |-> message, calls |-> calls]
        assigned == IF channel_id.value = None
                    THEN Attr(Some(ShiftTrackerChannelId))
                    ELSE channel_id
        posted == Attr(Some(MessageNumber(message_id) + 1))
    IN  IF ~channel_id.defined \/ ~message_id.defined
        THEN result("AttributeError", FALSE, "raised", channel_id, message_id, <<>>)
        ELSE IF ~outcome.channel
        THEN result("none", FALSE, "no_channel", assigned, message_id, <<>>)
        ELSE IF outcome.first = "ok"
        THEN IF message_id.value # None
             THEN result("none", TRUE, "edited", assigned, message_id, <<"ok">>)
             ELSE result("none", TRUE, "sent", assigned, posted, <<"ok">>)
        ELSE IF outcome.first = "NotFound"
        THEN IF outcome.resend = "ok"
             THEN result("none", TRUE, "resent", assigned, posted, <<"NotFound", "ok">>)
             ELSE result(outcome.resend, TRUE, "raised", assigned, message_id,
                         <<"NotFound", outcome.resend>>)
        ELSE result("none", TRUE, "logged", assigned, message_id, <<outcome.first>>)

\* Mutant of shift_changed: the start alone is compared
shift_changed_StartOnly(times, cached_start, cached_end) ==
    times.start # cached_start

\* The test of line 250: the resolved pair differs from the cached pair
shift_changed(times, cached_start, cached_end) ==
    times.start # cached_start \/ times.end # cached_end

(***************************************************************************)
(* The state machine                                                       *)
(***************************************************************************)

\* The model starts at StartHour and the clock stops at MaxNow
StartHour == 21

MaxNow == 26

VARIABLES
    now,               \* the current instant, datetime.now(US/Eastern)
    moderators,        \* ModeratorTracker.moderators: group -> user_id -> record
    schedule_entries,  \* ModeratorTracker.schedule_entries: date -> entries
    last,              \* history: the operation that produced this state, its reply
    last_duration,     \* history: per tracked user, the shift_duration that the
                       \* user's most recent check-in resolved (0 when not tracked)
    current_shift_start,       \* ModeratorTracker.current_shift_start
    current_shift_end,         \* ModeratorTracker.current_shift_end
    shift_tracker_channel_id,  \* attribute read by update_shift_tracker_message
    shift_tracker_message_id,  \* attribute read by update_shift_tracker_message
    running            \* the periodic tasks whose loop has not been left

\* The state that only the shift poll and the display update write
display == <<current_shift_start, current_shift_end, shift_tracker_channel_id,
             shift_tracker_message_id, running>>

vars == <<now, moderators, schedule_entries, last, last_duration, display>>

\* tracked: whether the user was tracked before the operation; prev: for a
\* sweep that directly follows a sweep, the reply of that sweep, and for a
\* re-check-in, the group that held the user; calls: for a shift poll, the
\* results its transport calls gave; listed: for a render, the records the
\* embed lists as checked in; records: for
\* a refresh, the records the spreadsheet client gave
Op(op, user_id, reply, group, tracked) ==
    [op |-> op, user |-> user_id, reply |-> reply, group |-> group, tracked |-> tracked,
     prev |-> "none", records |-> <<>>, calls |-> <<>>, listed |-> {}]

\* The record of a tracked user
RecordOf(mods, user_id) ==
    LET g == CHOOSE x \in Groups : user_id \in DOMAIN mods[x]
    IN  mods[g][user_id]

IsTracked(mods, user_id) == GroupsHolding(mods, user_id) # {}

\* last_duration once the tracker holds mods
KeepDurations(durations, mods) ==
    [u \in UserIds |-> IF IsTracked(mods, u) THEN durations[u] ELSE 0]

\* The tracker that serves an interaction of guild_id: the one module-level
\* moderator_tracker, whatever the guild (ModeratorTrackerManager.get_tracker
\* is never called)
moderator_tracker(guild_id) == moderators

\* ModeratorTracker.__init__
Init ==
    /\ now = StartHour
    /\ moderators = [g \in Groups |-> EmptyDict]
    /\ schedule_entries = EmptyIndex
    /\ last = Op("init", 0, "none", "none", FALSE)
    /\ last_duration = [u \in UserIds |-> 0]
    /\ current_shift_start = None
    /\ current_shift_end = None
    /\ shift_tracker_channel_id = Undefined
    /\ shift_tracker_message_id = Undefined
    /\ running = PeriodicTasks

\* Time passes
Tick ==
    /\ now < MaxNow
    /\ now' = now + 1
    /\ last' = Op("tick", 0, "none", "none", FALSE)
    /\ UNCHANGED <<moderators, schedule_entries, last_duration, display>>

\* mod_checkin for a user without a required role: lines 296-299
CheckinRefused(user) ==
    /\ ~user_has_role(user, RequiredRoleNames)
    /\ last' = Op("checkin", user.id, "no_permission", "none",
                  IsTracked(moderators, user.id))
    /\ UNCHANGED <<now, moderators, schedule_entries, last_duration, display>>

\* mod_checkin for a user with a required role: lines 301-346
CheckinAccepted(user) ==
    /\ user_has_role(user, RequiredRoleNames)
    /\ LET found == FindShift(Bucket(schedule_entries, DateOf(now)), user, now)
           checked_in_mod ==
               CheckedInModerator(user, found.group, now, found.shift_duration)
           holding == GroupsHolding(moderators, user.id)
           done == Op("checkin", user.id, "checked_in", found.group, holding # {})
       IN  /\ IF holding = {}
              THEN /\ moderators' = CheckInNew(moderators, checked_in_mod)
                   /\ last' = done
              ELSE \E existing_group \in holding :
                      /\ moderators' =
                          CheckInExisting(moderators, checked_in_mod, existing_group)
                      /\ last' = [done EXCEPT !.prev = existing_group]
           /\ last_duration' = [last_duration EXCEPT ![user.id] = found.shift_duration]
    /\ UNCHANGED <<now, schedule_entries, display>>

mod_checkin(user) == CheckinRefused(user) \/ CheckinAccepted(user)

\* mod_checkout for a user without a required role: lines 349-352
CheckoutRefused(user) ==
    /\ ~user_has_role(user, RequiredRoleNames)
    /\ last' = Op("checkout", user.id, "no_permission", "none",
                  IsTracked(moderators, user.id))
    /\ UNCHANGED <<now, moderators, schedule_entries, last_duration, display>>

\* mod_checkout for a user with a required role: lines 354-371
CheckoutAccepted(user) ==
    /\ user_has_role(user, RequiredRoleNames)
    /\ LET i == FirstHolding(moderators, user.id, 1)
       IN  IF i # 0
           THEN /\ moderators' = check_out_moderator(moderators, user.id, CheckoutOrder[i])
                /\ last' = Op("checkout", user.id, "checked_out", CheckoutOrder[i], TRUE)
           ELSE /\ moderators' = moderators
                /\ last' = Op("checkout", user.id, "not_checked_in", "none", FALSE)
    /\ last_duration' = KeepDurations(last_duration, moderators')
    /\ UNCHANGED <<now, schedule_entries, display>>

mod_checkout(user) == CheckoutRefused(user) \/ CheckoutAccepted(user)

\* One cycle of auto_check_out_task: auto_check_out_moderators() at now
AutoCheckOut ==
    /\ moderators' = auto_check_out_moderators(moderators, now)
    /\ last' = [Op("sweep", 0,
                     IF moderators' # moderators THEN "evicted" ELSE "nothing",
                     "none", FALSE)
                 EXCEPT !.prev = IF last.op = "sweep" THEN last.reply ELSE "none"]
    /\ last_duration' = KeepDurations(last_duration, moderators')
    /\ UNCHANGED <<now, schedule_entries, display>>

\* Mutant of RefreshSchedule: the refresh re-initialises the tracker as
\* __init__ does
RefreshSchedule_Reinit(source) ==
    /\ schedule_entries' = refresh_schedule(schedule_entries, source)
    /\ moderators' = [g \in Groups |-> EmptyDict]
    /\ current_shift_start' = None
    /\ current_shift_end' = None
    /\ last' = [Op("refresh", 0, source.kind, "none", FALSE)
                 EXCEPT !.records = source.records]
    /\ last_duration' = [u \in UserIds |-> 0]
    /\ UNCHANGED <<now, shift_tracker_channel_id, shift_tracker_message_id, running>>

\* refresh_schedule, called by refresh_schedule_task, on_ready, the Refresh
\* button and /mod-shift-tracker, with what the spreadsheet client gives
RefreshSchedule(source) ==
    /\ schedule_entries' = refresh_schedule(schedule_entries, source)
    /\ last' = [Op("refresh", 0, source.kind, "none", FALSE)
                 EXCEPT !.records = source.records]
    /\ UNCHANGED <<now, moderators, last_duration, display>>

\* One cycle of shift_tracker_task with what the Discord client gives: the
\* cycle runs to its end without suspension when the shift has not changed;
\* otherwise the cached pair is updated and update_shift_tracker_message
\* called, whose get_embed() sweeps; an exception leaving the call leaves
\* the loop of the task
ShiftPoll(outcome) ==
    /\ "shift_tracker_task" \in running
    /\ MessageNumber(shift_tracker_message_id) < MaxMessages
    /\ LET times == get_current_shift_times(schedule_entries, now)
       IN  IF shift_changed(times, current_shift_start, current_shift_end)
           THEN LET update == update_shift_tracker_message(
                                  shift_tracker_channel_id, shift_tracker_message_id,
                                  outcome)
                IN  /\ current_shift_start' = times.start
                    /\ current_shift_end' = times.end
                    /\ moderators' = IF update.swept
                                      THEN get_embed(moderators, now).moderators
                                      ELSE moderators
                    /\ shift_tracker_channel_id' = update.channel_id
                    /\ shift_tracker_message_id' = update.message_id
                    /\ running' = IF update.raised # "none"
                                   THEN running \ {"shift_tracker_task"}
                                   ELSE running
                    /\ last' = [Op("poll", 0, update.reply, "none", FALSE)
                                 EXCEPT !.calls = update.calls]
           ELSE /\ last' = Op("poll", 0, "unchanged", "none", FALSE)
                /\ UNCHANGED <<moderators, display>>
    /\ last_duration' = KeepDurations(last_duration, moderators')
    /\ UNCHANGED <<now, schedule_entries>>

Next ==
    \/ Tick
    \/ \E user \in Users : mod_checkin(user)
    \/ \E user \in Users : mod_checkout(user)
    \/ AutoCheckOut
    \/ \E source \in Sources : RefreshSchedule(source)

Spec == Init /\ [][Next]_vars

\* The tracker under fair scheduling: the clock advances (up to MaxNow) and
\* auto_check_out_task, whose cycle cannot raise, keeps running its cycles
FairSpec == Spec /\ WF_vars(Tick) /\ WF_vars(AutoCheckOut)

\* The tracker together with the shift poll
TaskNext ==
    \/ Next
    \/ \E outcome \in Outcomes : ShiftPoll(outcome)

TaskSpec == Init /\ [][TaskNext]_vars

\* get_embed() as the button callbacks and /mod-shift-tracker call it, in
\* the step that follows their suspension
Render ==
    /\ LET embed == get_embed(moderators, now)
       IN  /\ moderators' = embed.moderators
           /\ last' = [Op("render", 0,
                           IF embed.moderators # moderators THEN "evicted" ELSE "nothing",
                           "none", FALSE)
                       EXCEPT !.listed = embed.listed]
    /\ last_duration' = KeepDurations(last_duration, moderators')
    /\ UNCHANGED <<now, schedule_entries, display>>

\* The tracker together with the renders of its status
RenderNext ==
    \/ Next
    \/ Render

RenderSpec == Init /\ [][RenderNext]_vars

\* The shift poll and the display update alone, from every state of the two
\* attributes in which update_shift_tracker_message can be called: not
\* assigned (as __init__ leaves them) or None
DisplayInit ==
    /\ now = StartHour
    /\ moderators = [g \in Groups |-> EmptyDict]
    /\ schedule_entries = EmptyIndex
    /\ last = Op("init", 0, "none", "none", FALSE)
    /\ last_duration = [u \in UserIds |-> 0]
    /\ current_shift_start = None
    /\ current_shift_end = None
    /\ shift_tracker_channel_id \in {Undefined, Attr(None)}
    /\ shift_tracker_message_id \in {Undefined, Attr(None)}
    /\ running = PeriodicTasks

DisplayNext ==
    \/ Tick
    \/ \E source \in Sources : RefreshSchedule(source)
    \/ \E outcome \in Outcomes : ShiftPoll(outcome)

DisplaySpec == DisplayInit /\ [][DisplayNext]_vars

\* Dee, "dee", day 0, 11:00 PM - 02:00 AM (overnight), lead "Al", overflow "Bo"
RowLate ==
    Record(<<"D", "e", "e">>, <<"d", "e", "e">>, DateCell(0),
           TimeCell(11, TRUE), TimeCell(2, FALSE), <<"A", "l">>, <<"B", "o">>)

\* Sheets with a shift that crosses midnight
OvernightSheets == {<<RowOvernight>>, <<RowEvening, RowOvernight>>, <<RowLate>>}

\* The tracker after on_ready has loaded a sheet with an overnight shift
OvernightInit ==
    /\ now = StartHour
    /\ moderators = [g \in Groups |-> EmptyDict]
    /\ schedule_entries \in
           {refresh_schedule(EmptyIndex, SourceRows(records)) : records \in OvernightSheets}
    /\ last = Op("init", 0, "none", "none", FALSE)
    /\ last_duration = [u \in UserIds |-> 0]
    /\ current_shift_start = None
    /\ current_shift_end = None
    /\ shift_tracker_channel_id = Undefined
    /\ shift_tracker_message_id = Undefined
    /\ running = PeriodicTasks

\* Check-ins and shift polls as the evening passes into the next day
OvernightNext ==
    \/ Tick
    \/ \E user \in Users : mod_checkin(user)
    \/ \E outcome \in Outcomes : ShiftPoll(outcome)

OvernightSpec == OvernightInit /\ [][OvernightNext]_vars

\* The identities and entries on which match_user alone is exercised
UserZed ==
    [id |-> 4, display_name |-> <<"z", "z", "z">>, name |-> <<"z", "z", "z">>,
     tag |-> <<"z", "z", "z">>, roles |-> {"Moderator"}, guild |-> GuildA]

UserJane ==
    [id |-> 5, display_name |-> <<"J", "a", "n", "e", " ", "D", "o", "e">>,
     name |-> <<"j", "a", "n", "e", "d", "o", "e">>,
     tag |-> <<"j", "a", "n", "e", "d", "o", "e", "#", "1", "2", "3", "4">>,
     roles |-> {"Moderator"}, guild |-> GuildA]

MatchUsers == Users \cup {UserZed, UserJane}

MatchNames ==
    {<<>>, <<"J", "a", "n", "e", " ", "D", "o", "e">>, <<"A", "l">>, <<"B", "o">>,
     <<"D", "e", "e">>}

MatchHandles ==
    {<<>>, <<"j", "a", "n", "e", "#", "1", "2", "3", "4">>,
     <<"a", "l", "#", "0", "0", "0", "1">>, <<"(", "a", "l", ")">>, <<"d", "e", "e">>}

MatchEntries ==
    {ScheduleEntry(name, handle, StartHour, StartHour + 1, "Mod") :
        name \in MatchNames, handle \in MatchHandles}

\* match_user(entry, user) is called and its result kept
Match(entry, user) ==
    /\ last.op = "init"
    /\ last' = [op |-> "match", entry |-> entry, identity |-> user,
                reply |-> match_user(entry, user)]
    /\ UNCHANGED <<now, moderators, schedule_entries, last_duration, display>>

MatcherNext ==
    \E entry \in MatchEntries, user \in MatchUsers : Match(entry, user)

MatcherSpec == Init /\ [][MatcherNext]_vars

\* The loader alone: the first refresh of a new tracker reads some sheet of
\* LoaderSheets
Load(records) ==
    /\ last.op = "init"
    /\ RefreshSchedule(SourceRows(records))

LoaderNext ==
    \E records \in LoaderSheets : Load(records)

LoaderSpec == Init /\ [][LoaderNext]_vars

(***************************************************************************)
(* Claims                                                                  *)
(***************************************************************************)

\* The step just taken was an accepted check-in of user_id
IsCheckin(op, user_id) ==
    op.op = "checkin" /\ op.reply = "checked_in" /\ op.user = user_id

FailedSources == {"no_credentials", "no_sheet", "fetch_error"}

\* C1: a refresh that fails (the credentials are missing, the source is
\* unreachable or yields no sheet, the fetch of the rows raises) leaves the
\* schedule index as it was before the refresh.
C1_FailedRefreshKeepsIndex ==
    [][(last'.op = "refresh" /\ last'.reply \in FailedSources)
           => schedule_entries' = schedule_entries]_vars

\* C2: a check-in of a user who is already tracked keeps the check-in
\* instant of the existing record, whatever group it resolves.
C2_RecheckinKeepsCheckinTime ==
    [][\A u \in UserIds :
          (IsCheckin(last', u) /\ IsTracked(moderators, u))
              => /\ IsTracked(moderators', u)
                 /\ RecordOf(moderators', u).check_in_time
                        = RecordOf(moderators, u).check_in_time]_vars

\* C2 witness: a re-check-in at an instant later than the original check-in,
\* into another group than Floating, has happened
C2_Witness ==
    /\ last.op = "checkin" /\ last.reply = "checked_in" /\ last.tracked
    /\ last.group # FloatingGroup
    /\ RecordOf(moderators, last.user).check_in_time < now

\* C3: every tracked record has shift_end_time = check_in_time + the
\* duration resolved at the user's most recent check-in.
C3_ShiftEndIsCheckinPlusDuration ==
    \A g \in Groups : \A u \in DOMAIN moderators[g] :
        moderators[g][u].shift_end_time
            = moderators[g][u].check_in_time + last_duration[u]

\* C4: a check-in of a tracked user whose record has not expired, resolving
\* the same group and the same duration as before, does not move the
\* record's shift_end_time later.
C4_RecheckinDoesNotExtendShift ==
    [][\A u \in UserIds :
          (/\ IsCheckin(last', u)
           /\ IsTracked(moderators, u)
           /\ now < RecordOf(moderators, u).shift_end_time
           /\ RecordOf(moderators', u).group = RecordOf(moderators, u).group
           /\ last_duration'[u] = last_duration[u])
              => RecordOf(moderators', u).shift_end_time
                     <= RecordOf(moderators, u).shift_end_time]_vars

\* A check-out request of user, who holds a required role, was just served
IsCheckout(op, user) ==
    op.op = "checkout" /\ op.user = user.id /\ user_has_role(user, RequiredRoleNames)

\* Every record of the users other than user_id is the same in mods2 as in mods1
OthersUnchanged(mods1, mods2, user_id) ==
    \A g \in Groups : \A v \in UserIds \ {user_id} :
        /\ v \in DOMAIN mods2[g] <=> v \in DOMAIN mods1[g]
        /\ v \in DOMAIN mods1[g] => mods2[g][v] = mods1[g][v]

\* C5: the check-out of a user who is in no group replies "not currently
\* checked in" and leaves the tracked records as they were.
C5_CheckoutOfAbsentUser ==
    [][\A user \in Users :
          (IsCheckout(last', user) /\ ~IsTracked(moderators, user.id))
              => /\ last'.reply = "not_checked_in"
                 /\ moderators' = moderators]_vars

\* C5 witness: an absent user was refused while another user is tracked
C5_Witness ==
    /\ last.op = "checkout" /\ last.reply = "not_checked_in"
    /\ \E v \in UserIds \ {last.user} : IsTracked(moderators, v)

\* C6: the check-out of a tracked user succeeds, leaves the user in no group
\* and leaves every other user's record unchanged.
C6_CheckoutRemovesOnlyTheUser ==
    [][\A user \in Users :
          (IsCheckout(last', user) /\ IsTracked(moderators, user.id))
              => /\ last'.reply = "checked_out"
                 /\ ~IsTracked(moderators', user.id)
                 /\ OthersUnchanged(moderators, moderators', user.id)]_vars

\* C6 witness: a user was checked out of a group while another user is tracked
C6_Witness ==
    /\ last.op = "checkout" /\ last.reply = "checked_out"
    /\ ~IsTracked(moderators, last.user)
    /\ \E v \in UserIds \ {last.user} : IsTracked(moderators, v)

\* C7: a sweep at instant now removes exactly the records whose
\* shift_end_time is <= now and leaves the other records unmodified.
C7_SweepRemovesExactlyExpired ==
    [][last'.op = "sweep"
          => \A g \in Groups : \A u \in UserIds :
                /\ u \in DOMAIN moderators'[g]
                      <=> (u \in DOMAIN moderators[g]
                           /\ now < moderators[g][u].shift_end_time)
                /\ u \in DOMAIN moderators'[g]
                      => moderators'[g][u] = moderators[g][u]]_vars

\* C7 witness: a sweep evicted a record and kept another one
C7_Witness ==
    /\ last.op = "sweep" /\ last.reply = "evicted"
    /\ \E u \in UserIds : IsTracked(moderators, u)

\* C8: a sweep that directly follows a sweep, at the same instant and with no
\* other operation between them, changes nothing.
C8_SweepIdempotent ==
    [][(last.op = "sweep" /\ last'.op = "sweep") => moderators' = moderators]_vars

\* C8 witness: a sweep evicted a record, a second sweep followed it directly
\* and records are still tracked
C8_Witness ==
    /\ last.op = "sweep" /\ last.prev = "evicted" /\ last.reply = "nothing"
    /\ \E u \in UserIds : IsTracked(moderators, u)

\* The positions of the bucket whose entry matches the user and whose
\* half-open window [start, end) contains t
ActiveMatches(bucket, user, t) ==
    {i \in 1..Len(bucket) :
        /\ bucket[i].shift_start_datetime <= t
        /\ t < bucket[i].shift_end_datetime
        /\ match_user(bucket[i], user)}

\* C9: the check-in of a user who is not tracked takes its group and its
\* duration from the first entry of today's bucket that matches the user and
\* whose window [start, end) contains the current instant, and is Floating
\* for one hour when there is no such entry.
C9_FreshCheckinResolution ==
    \A user \in Users :
        (IsCheckin(last, user.id) /\ ~last.tracked)
            => LET bucket == Bucket(schedule_entries, DateOf(now))
                   hits == ActiveMatches(bucket, user, now)
                   first == CHOOSE i \in hits : \A j \in hits : i <= j
                   rec == RecordOf(moderators, user.id)
               IN  /\ rec.check_in_time = now
                   /\ IF hits = {}
                      THEN /\ rec.group = FloatingGroup
                           /\ rec.shift_end_time = now + FloatingHours
                      ELSE /\ rec.group = bucket[first].role
                           /\ rec.shift_end_time
                                  = now + (bucket[first].shift_end_datetime
                                           - bucket[first].shift_start_datetime)

\* C10: a check-in by a user with a required role always succeeds; right
\* after it the user is tracked under exactly the group reported, one of the
\* four groups.
C10_CheckinAlwaysSucceeds ==
    (last.op = "checkin" /\ user_has_role(UserOf(last.user), RequiredRoleNames))
        => /\ last.reply = "checked_in"
           /\ last.group \in Groups
           /\ GroupsHolding(moderators, last.user) = {last.group}
           /\ moderators[last.group][last.user].group = last.group

\* C10 witness: a tracked user checked in again and was reported a scheduled
\* group
C10_Witness ==
    /\ last.op = "checkin" /\ last.reply = "checked_in" /\ last.tracked
    /\ last.group \in {"Mod", "Lead Mod"}
    /\ schedule_entries # EmptyIndex

\* C11: in every reachable state, under any interleaving of check-in,
\* re-check-in with a changed group, check-out, sweep, schedule refresh and
\* shift poll, each user id appears in at most one group
C11_UserInAtMostOneGroup ==
    \A user_id \in UserIds : Cardinality(GroupsHolding(moderators, user_id)) <= 1

\* A re-check-in has just moved a tracked user to another group, after a
\* shift poll saw the shift change
C11_Witness ==
    /\ last.op = "checkin" /\ last.reply = "checked_in" /\ last.tracked
    /\ last.prev # last.group
    /\ current_shift_start # None
    /\ GroupsHolding(moderators, last.user) = {last.group}

\* The window [start, end) of an entry contains the instant t
WindowContains(entry, t) ==
    entry.shift_start_datetime <= t /\ t < entry.shift_end_datetime

\* C12: current-shift resolution returns (earliest start, latest end) over
\* the entries of today's bucket whose window contains the current instant,
\* and (null, null) when there is none; stated of the pair a poll cycle
\* has just resolved and cached
C12_CurrentShiftResolution ==
    last.op = "poll" =>
        LET todays == Bucket(schedule_entries, DateOf(now))
            active == {i \in DOMAIN todays : WindowContains(todays[i], now)}
        IN  IF active = {}
            THEN current_shift_start = None /\ current_shift_end = None
            ELSE /\ current_shift_start =
                        Some(Least({todays[i].shift_start_datetime : i \in active}))
                 /\ current_shift_end =
                        Some(Greatest({todays[i].shift_end_datetime : i \in active}))

\* Claim-side reading of a record: the hour its time cell names, whether its
\* three cells are text in the expected formats, its instants
ClockHour(cell) ==
    IF cell.hh = 12 THEN (IF cell.pm THEN 12 ELSE 0)
    ELSE cell.hh + (IF cell.pm THEN 12 ELSE 0)

Parses(record) ==
    /\ record.Date.kind = "text" /\ record.Start.kind = "text"
    /\ record.End.kind = "text"

HasNonText(record) ==
    "nontext" \in {record.Date.kind, record.Start.kind, record.End.kind}

StartInstant(record) == record.Date.day * HoursPerDay + ClockHour(record.Start)

Range(seq) == {seq[i] : i \in DOMAIN seq}

\* The step just taken was a refresh that read records
ReadRecords == last.op = "refresh" /\ last.reply = "rows"

\* ... none of which holds a cell that is not text
ReadTextRecords ==
    ReadRecords /\ \A i \in DOMAIN last.records : ~HasNonText(last.records[i])

\* C13: a row whose raw end time is not after its raw start time is treated
\* as overnight: its entry ends on day D+1 and is indexed under both the
\* bucket of D and the bucket of D+1
C13_OvernightRow ==
    ReadTextRecords =>
        \A i \in DOMAIN last.records :
            LET r == last.records[i]
            IN  (Parses(r) /\ ClockHour(r.End) <= ClockHour(r.Start)) =>
                    \E e \in Range(Bucket(schedule_entries, r.Date.day)) :
                        /\ e.role = "Mod" /\ e.moderator_name = r.Name
                        /\ e.shift_start_datetime = StartInstant(r)
                        /\ e.shift_end_datetime =
                               (r.Date.day + 1) * HoursPerDay + ClockHour(r.End)
                        /\ e \in Range(Bucket(schedule_entries, r.Date.day + 1))

\* A sheet with a row from 11 PM to 1 AM and a row whose end equals its start
\* has been loaded
C13_Witness ==
    /\ ReadTextRecords
    /\ \E i, j \in DOMAIN last.records :
          /\ Parses(last.records[i]) /\ Parses(last.records[j])
          /\ ClockHour(last.records[i].End) < ClockHour(last.records[i].Start)
          /\ ClockHour(last.records[j].End) = ClockHour(last.records[j].Start)
    /\ Bucket(schedule_entries, 1) # <<>>

OverflowNamed(record) == record.Overflow \notin {<<>>, NotAvailable}

\* C14: a row whose overflow cell is empty or exactly "Not available" yields
\* no Overflow entry; any other value yields exactly one Overflow entry, with
\* the start and end instants of the row's Mod entry
C14_OverflowEntries ==
    ReadTextRecords =>
        /\ \A i \in DOMAIN last.records :
              LET r == last.records[i]
              IN  (Parses(r) /\ OverflowNamed(r)) =>
                      \E e, mod \in Range(Bucket(schedule_entries, r.Date.day)) :
                          /\ e.role = "Overflow" /\ e.moderator_name = r.Overflow
                          /\ mod.role = "Mod" /\ mod.moderator_name = r.Name
                          /\ mod.shift_start_datetime = StartInstant(r)
                          /\ e.shift_start_datetime = mod.shift_start_datetime
                          /\ e.shift_end_datetime = mod.shift_end_datetime
        /\ \A d \in {last.records[i].Date.day :
                        i \in {k \in DOMAIN last.records : Parses(last.records[k])}} :
              LET bucket == Bucket(schedule_entries, d)
              IN  Cardinality({j \in DOMAIN bucket :
                                  /\ bucket[j].role = "Overflow"
                                  /\ DateOf(bucket[j].shift_start_datetime) = d})
                  = Cardinality({i \in DOMAIN last.records :
                                    /\ Parses(last.records[i])
                                    /\ last.records[i].Date.day = d
                                    /\ OverflowNamed(last.records[i])})

\* A sheet with a "Not available" row and a row naming an overflow moderator
\* has been loaded
C14_Witness ==
    /\ ReadTextRecords
    /\ \E i, j \in DOMAIN last.records :
          /\ Parses(last.records[i]) /\ last.records[i].Overflow = NotAvailable
          /\ Parses(last.records[j]) /\ OverflowNamed(last.records[j])
    /\ \E e \in Range(Bucket(schedule_entries, 0)) : e.role = "Overflow"

\* C15: a row whose date or time cells do not parse (a time cell that is
\* missing or not text included) is skipped without aborting the load: every
\* well-formed row of the sheet still yields its entries
C15_MalformedRowSkipped ==
    ReadRecords =>
        \A i \in DOMAIN last.records :
            LET r == last.records[i]
            IN  Parses(r) =>
                    \E e \in Range(Bucket(schedule_entries, r.Date.day)) :
                        /\ e.role = "Mod" /\ e.moderator_name = r.Name
                        /\ e.shift_start_datetime = StartInstant(r)

\* C16: a schedule refresh replaces the index in one step: whatever reads
\* the index, before or after, finds the complete index from before the
\* refresh or the complete index the refresh built, never a part of one
C16_IndexReplacedAtomically ==
    [][last'.op = "refresh" =>
          LET source == [kind |-> last'.reply, records |-> last'.records]
              built == get_schedule_entries(source)
          IN  \/ schedule_entries' = schedule_entries
              \/ /\ source.kind # "no_credentials"
                 /\ ~built.raised
                 /\ schedule_entries' = built.index]_vars

\* A refresh whose load raised at its second record has left the complete
\* index that an earlier refresh built, which a shift poll had read
C16_Witness ==
    /\ last.op = "refresh"
    /\ last.records = <<RowEvening, RowNonText>>
    /\ schedule_entries =
           get_schedule_entries(SourceRows(<<RowEvening, RowOvernight>>)).index
    /\ current_shift_start # None

\* C17: no failure inside one cycle of a periodic task (schedule refresh,
\* sweep, shift poll with its display update) propagates out of the task:
\* whatever its cycles met, every periodic task is still running
C17_TasksKeepRunning == running = PeriodicTasks

\* The texts the matcher compares: the identity's three names, the entry's
\* handle and name, lower-cased, brackets removed, trimmed
IdentityTexts(user) == {Lower(user.display_name), Lower(user.name), Lower(user.tag)}

EntryTexts(entry) ==
    {Strip(RemoveBrackets(Lower(entry.discord_username))),
     Strip(RemoveBrackets(Lower(entry.moderator_name)))}

TagRule(entry, user) ==
    \E text \in EntryTexts(entry) :
        /\ extract_discord_tag(text) # NoTag
        /\ extract_discord_tag(text) = Lower(user.tag)

FuzzyRule(entry, user) ==
    \E u \in IdentityTexts(user), e \in EntryTexts(entry) :
        TokenSetRatioReaches(u, e, FuzzyThreshold)

SubstringRule(entry, user) ==
    \E u \in IdentityTexts(user), e \in EntryTexts(entry) :
        /\ u # <<>> /\ e # <<>>
        /\ IsSubstring(u, e) \/ IsSubstring(e, u)

\* C18: the matcher returns false when no tag matches, no fuzzy score
\* reaches 85 and neither side is a non-empty substring of the other: an
\* empty entry handle or name never by itself produces a match
C18_NoMatchWithoutRule ==
    (last.op = "match" /\ last.reply) =>
        \/ TagRule(last.entry, last.identity)
        \/ FuzzyRule(last.entry, last.identity)
        \/ SubstringRule(last.entry, last.identity)

\* The identity holds one of the roles Moderator, Community Moderator
HoldsRequiredRole(user) ==
    user.roles \cap {"Moderator", "Community Moderator"} # {}

\* C19: a check-in or check-out request from an identity that holds none of
\* the required roles leaves the tracker state unchanged
C19_RoleGate ==
    [][(last'.op \in {"checkin", "checkout"} /\ ~HoldsRequiredRole(UserOf(last'.user)))
          => /\ moderators' = moderators
             /\ schedule_entries' = schedule_entries
             /\ UNCHANGED display]_vars

\* An identity without a required role has just been refused while the
\* tracker holds a record
C19_Witness ==
    /\ last.op \in {"checkin", "checkout"}
    /\ ~HoldsRequiredRole(UserOf(last.user))
    /\ last.reply = "no_permission"
    /\ \E user_id \in UserIds : IsTracked(moderators, user_id)

\* C20: there is one tracker per community: a check-in or check-out in one
\* community never changes a record visible in another community's tracker
C20_CommunityIsolation ==
    [][\A guild_id \in GuildIds :
          (/\ last'.op \in {"checkin", "checkout"}
           /\ UserOf(last'.user).guild # guild_id)
          => moderator_tracker(guild_id)' = moderator_tracker(guild_id)]_vars

C27_PollRefreshesOnChange ==
    [][last'.op = "poll" =>
          LET times == get_current_shift_times(schedule_entries, now)
              differs == \/ times.start # current_shift_start
                         \/ times.end # current_shift_end
          IN  /\ differs <=> last'.reply # "unchanged"
              /\ current_shift_start' = times.start
              /\ current_shift_end' = times.end]_vars

\* A cycle has refreshed the display by editing the posted message, the
\* cached pair being that of a current shift
C27_Witness ==
    /\ last.op = "poll" /\ last.reply = "edited"
    /\ current_shift_start # None /\ current_shift_end # None

\* C23: a shift window is the half-open range [start, end): at the instant
\* equal to an entry's end the entry is not active, so it does not assign
\* its role to a check-in made at that instant; stated of the entry from
\* which an accepted check-in has just taken its group and duration
C23_HalfOpenWindow ==
    (last.op = "checkin" /\ last.reply = "checked_in" /\ last.group # FloatingGroup) =>
        \E e \in Range(Bucket(schedule_entries, DateOf(now))) :
            /\ WindowContains(e, now)
            /\ e.role = last.group
            /\ e.shift_end_datetime - e.shift_start_datetime = last_duration[last.user]
            /\ match_user(e, UserOf(last.user))

\* Every entry of every bucket of the index
AllEntries(index) == UNION {Range(index[d]) : d \in DOMAIN index}

\* C24: every entry of every index the loader returns has its shift end
\* strictly after its shift start, rows with equal raw times included
C24_EndAfterStart ==
    \A e \in AllEntries(schedule_entries) :
        e.shift_end_datetime > e.shift_start_datetime

\* A row whose raw start and end are equal has been loaded as a shift of a
\* whole day
C24_Witness ==
    /\ ReadTextRecords
    /\ \E i \in DOMAIN last.records :
          /\ Parses(last.records[i])
          /\ ClockHour(last.records[i].End) = ClockHour(last.records[i].Start)
    /\ \E e \in AllEntries(schedule_entries) :
          e.shift_end_datetime - e.shift_start_datetime = HoursPerDay

SameWindow(e1, e2) ==
    /\ e1.shift_start_datetime = e2.shift_start_datetime
    /\ e1.shift_end_datetime = e2.shift_end_datetime

\* The end instant of a record: on the next day when its raw end time is
\* not after its raw start time
EndInstant(r) ==
    (r.Date.day + (IF ClockHour(r.End) <= ClockHour(r.Start) THEN 1 ELSE 0))
        * HoursPerDay + ClockHour(r.End)

\* The Mod entries that bucket d holds for record r
ModEntriesOf(r, d) ==
    {e \in Range(Bucket(schedule_entries, d)) :
        /\ e.role = "Mod" /\ e.moderator_name = r.Name
        /\ e.shift_start_datetime = StartInstant(r)
        /\ e.shift_end_datetime = EndInstant(r)}

\* C25: the entries derived from one row (Mod, Lead Mod exactly when a lead
\* name is present, Overflow) have identical start and end instants and are
\* in exactly the same date buckets
C25_RowEntriesShareWindow ==
    ReadTextRecords =>
        /\ \A d \in DOMAIN schedule_entries :
              \A e \in Range(schedule_entries[d]) :
                  e.role # "Mod" =>
                      \E mod \in Range(schedule_entries[d]) :
                          mod.role = "Mod" /\ SameWindow(e, mod)
        /\ \A i \in DOMAIN last.records, d \in DOMAIN schedule_entries :
              LET r == last.records[i]
              IN  Parses(r) =>
                      \A mod \in ModEntriesOf(r, d) :
                          /\ r.Lead # <<>> =>
                                \E e \in Range(schedule_entries[d]) :
                                    /\ e.role = "Lead Mod" /\ e.moderator_name = r.Lead
                                    /\ SameWindow(e, mod)
                          /\ OverflowNamed(r) =>
                                \E e \in Range(schedule_entries[d]) :
                                    /\ e.role = "Overflow"
                                    /\ e.moderator_name = r.Overflow
                                    /\ SameWindow(e, mod)
        /\ \A d \in DOMAIN schedule_entries :
              Cardinality({j \in DOMAIN schedule_entries[d] :
                              schedule_entries[d][j].role = "Lead Mod"})
              = Cardinality({i \in DOMAIN last.records :
                                /\ Parses(last.records[i])
                                /\ last.records[i].Lead # <<>>
                                /\ ModEntriesOf(last.records[i], d) # {}})

\* An overnight row with a lead and an overflow moderator and a row with
\* neither have been loaded
C25_Witness ==
    /\ ReadTextRecords
    /\ \E i, j \in DOMAIN last.records :
          /\ Parses(last.records[i]) /\ last.records[i].Lead # <<>>
          /\ OverflowNamed(last.records[i])
          /\ ClockHour(last.records[i].End) < ClockHour(last.records[i].Start)
          /\ Parses(last.records[j]) /\ last.records[j].Lead = <<>>
    /\ \E e \in Range(Bucket(schedule_entries, 1)) : e.role = "Lead Mod"

\* The window [start, end) of the entry has an instant on calendar date d
IntersectsDate(e, d) ==
    /\ e.shift_start_datetime < (d + 1) * HoursPerDay
    /\ e.shift_end_datetime > d * HoursPerDay

\* C26: every entry is indexed under exactly the calendar dates its window
\* [start, end) intersects: it is in no bucket of a date on which it is
\* active at no instant, and in the bucket of every date on which it is
C26_IndexedUnderIntersectingDates ==
    \A e \in AllEntries(schedule_entries) :
        \A d \in 0..(DateOf(e.shift_end_datetime) + 1) :
            e \in Range(Bucket(schedule_entries, d)) <=> IntersectsDate(e, d)

\* C28: the sweep runs before any read used to render status: no rendered
\* snapshot lists as checked in a moderator whose shift end is at or before
\* the instant of rendering, whatever operations preceded the render
C28_RenderListsNoExpired ==
    last.op = "render" =>
        \A moderator \in last.listed : moderator.shift_end_time > now

\* A render has evicted an expired moderator and lists another one
C28_Witness ==
    /\ last.op = "render" /\ last.reply = "evicted"
    /\ last.listed # {}

\* C29: under fair scheduling of the sweep and advancing time, a tracked
\* user whose shift end the clock reaches and who performs no further
\* check-in is eventually absent from the tracker
C29_EventuallyEvicted ==
    \A user_id \in UserIds :
        (/\ IsTracked(moderators, user_id)
         /\ RecordOf(moderators, user_id).shift_end_time <= MaxNow)
        ~> (\/ ~IsTracked(moderators, user_id)
            \/ IsCheckin(last, user_id))

\* The sweep has evicted the last tracked moderator at the instant of the
\* shift end
C29_Witness ==
    /\ last.op = "sweep" /\ last.reply = "evicted"
    /\ \A user_id \in UserIds : ~IsTracked(moderators, user_id)
    /\ now > StartHour

\* C30: a check-in by a user whose previous record's shift end is already
\* at or before the current instant is a fresh check-in: the resulting
\* record's check-in instant is the instant of this check-in, whether or
\* not the sweep has removed the expired record
C30_ExpiredRecordFreshCheckin ==
    [][\A user_id \in UserIds :
        (/\ IsCheckin(last', user_id)
         /\ IsTracked(moderators, user_id)
         /\ RecordOf(moderators, user_id).shift_end_time <= now)
        => (/\ IsTracked(moderators', user_id)
            /\ RecordOf(moderators', user_id).check_in_time = now)]_vars

\* C31: a schedule refresh, whether it succeeds or fails, changes only the
\* schedule index: the tracked moderators with their groups, check-in and
\* shift-end instants, and the cached current-shift start and end are the
\* same after refresh_schedule as before it
C31_RefreshChangesOnlyIndex ==
    [][last'.op = "refresh"
        => /\ moderators' = moderators
           /\ current_shift_start' = current_shift_start
           /\ current_shift_end' = current_shift_end]_vars

\* A refresh has replaced the index while a moderator was tracked and a
\* current shift was cached
C31_Witness ==
    /\ last.op = "refresh" /\ last.reply = "rows"
    /\ schedule_entries # EmptyIndex
    /\ \E user_id \in UserIds : IsTracked(moderators, user_id)
    /\ current_shift_start # None
    /\ current_shift_end # None

\* The entry's shift starts on a date D and ends on D+1
Overnight(entry) ==
    DateOf(entry.shift_end_datetime) = DateOf(entry.shift_start_datetime) + 1

\* The current instant is on D+1 and before the entry's end
AfterMidnight(entry) ==
    /\ Overnight(entry)
    /\ DateOf(now) = DateOf(entry.shift_end_datetime)
    /\ now < entry.shift_end_datetime

\* The user matches the entry by one of the three matching rules
MatchesByRule(entry, user) ==
    TagRule(entry, user) \/ FuzzyRule(entry, user) \/ SubstringRule(entry, user)

\* The entries of the index whose window contains the current instant
ActiveEntries == {e \in AllEntries(schedule_entries) : WindowContains(e, now)}

\* C32: for an overnight shift starting on D and ending on D+1, after
\* midnight on D+1 and before the shift's end, a check-in by the user who
\* matches the entry (and no other active entry) resolves the entry's role
\* with the duration of the entry's full window, and current-shift
\* resolution, when every active entry has that window, gives the entry's
\* full [start on D, end on D+1]
C32_OvernightAfterMidnight ==
    \A e \in AllEntries(schedule_entries) :
        AfterMidnight(e) =>
            /\ \A user \in Users :
                  (/\ IsCheckin(last, user.id)
                   /\ {x \in ActiveEntries : MatchesByRule(x, user)} = {e})
                  => /\ last.group = e.role
                     /\ last_duration[user.id]
                            = e.shift_end_datetime - e.shift_start_datetime
            /\ (last.op = "poll" /\ \A x \in ActiveEntries : SameWindow(x, e))
                  => /\ current_shift_start = Some(e.shift_start_datetime)
                     /\ current_shift_end = Some(e.shift_end_datetime)

\* The positions of today's bucket whose entry the check-in of the user at
\* the current instant can take: the window test passes and the matcher
\* accepts
CheckinHits(user) ==
    LET bucket == Bucket(schedule_entries, DateOf(now))
    IN  {i \in DOMAIN bucket :
            InShiftWindow(bucket[i], now) /\ match_user(bucket[i], user)}

\* The entry a check-in of the user at the current instant matches
MatchedEntry(user) ==
    LET hits == CheckinHits(user)
    IN  Bucket(schedule_entries, DateOf(now))[CHOOSE i \in hits : \A j \in hits : i <= j]

\* C33: for every record created or replaced by a check-in that matched an
\* entry, the record's shift-end instant is at or after the matched entry's
\* end instant, and equal to it only when the check-in happened exactly at
\* the entry's start
C33_NotExpiredBeforeEntryEnd ==
    \A user \in Users :
        (IsCheckin(last, user.id) /\ CheckinHits(user) # {})
            => LET e == MatchedEntry(user)
                   rec == RecordOf(moderators, user.id)
               IN  /\ rec.group = e.role
                   /\ rec.shift_end_time >= e.shift_end_datetime
                   /\ (rec.shift_end_time = e.shift_end_datetime
                          => now = e.shift_start_datetime)

\* A check-in after the start of the matched entry has replaced the user's
\* record, which now ends after the entry does
C33_Witness ==
    \E user \in Users :
        /\ IsCheckin(last, user.id) /\ last.tracked
        /\ CheckinHits(user) # {}
        /\ now > MatchedEntry(user).shift_start_datetime
        /\ RecordOf(moderators, user.id).shift_end_time
               > MatchedEntry(user).shift_end_datetime

====
